---------------------------- MODULE Spec2Model ----------------------------
(***************************************************************************)
(* The federated-learning round orchestrator of SecHeto-FL (server.ts,     *)
(* modelQuality.ts): client registry, round lifecycle, deadline timers,    *)
(* quality-based selection and federated averaging.                        *)
(*                                                                         *)
(* Every HTTP handler, timer callback and continuation of an `await` is    *)
(* one atomic action (Node runs each to its next suspension point).        *)
(* Time is relative: a pending timer and the round deadline hold the       *)
(* number of clock units still to go, and Tick lets the clock run on to    *)
(* the next pending callback.                                              *)
(***************************************************************************)
EXTENDS Integers, Sequences, FiniteSets, Bags, TLC

(***************************************************************************)
(* Bounds of the model.                                                    *)
(***************************************************************************)
MantBits == 5          \* bits of a float's significand (binary64 has 53)
MaxK == 3              \* most updates handed to one aggregation (AvgSpec)
MaxIds == 3            \* client ids the registry ever issues
MaxRounds == 2         \* largest totalRounds
MaxPendingSubmits == 2 \* submit-weights requests suspended at once
MaxFaults == 1         \* disturbances of a run: POST /config and DELETE /clients/:id
                       \* requests, failed initializeModel and evaluation calls

\* null or undefined for a number, and null for an object
Null == 0 - 1
\* a value of a request body that is not a number, such as the string "many"
NotANumber == 0 - 2
NullObj == [null |-> TRUE]
\* Option values for numbers of either sign
None == <<>>
Some(v) == <<v>>
\* NaN and undefined among the floats <<m, e>> (no number has m = 0, e > 0)
NaN == <<0, 1>>
Undefined == <<0, 2>>
\* federatedAveragingAll threw a TypeError instead of returning a model
TypeError == [TypeError |-> <<>>]

(***************************************************************************)
(* The program's state.                                                    *)
(***************************************************************************)
VARIABLES
    clients,               \* Map clientId -> status
    rounds,                \* archived rounds
    currentRound,          \* NullObj or [roundId, clients, aggregated, status]
    globalModel,           \* NullObj or the last aggregated model
    currentRoundNumber,
    isAggregating,
    roundDeadline,         \* Null or the clock units left until the deadline
    roundStartTime,        \* Null or the clock units since the round started
    serverConfig,          \* [totalRounds, requiredClients, aggregationInterval,
                           \*  synchronousRounds]
    REQUIRED_CLIENTS,
    TOTAL_ROUNDS,
    clientTimingMetrics,   \* clientId -> sequence of trainingTime + communicationTime
    roundMeanTimes,        \* round -> mean time
    overallMeanTime,
    clientMetrics,         \* ModelQualityCalculator.clientMetrics, in insertion order
    previousRoundMetrics,  \* ModelQualityCalculator.previousRoundMetrics
    timers,                \* pending setTimeout callbacks <<kind, units left, tag>>
    pendingSubmits,        \* submit-weights requests suspended in evaluateModel
    nextId,                \* the next id that no registration has generated yet
    lastRegistration,      \* the id the latest registration generated, while
                           \* Date.now() still returns its millisecond; else Null
    faults,                \* the disturbances so far
    avgIn, avgNum, avgOut, \* AvgSpec: an aggregation input, its numData, its result
    selected,              \* SelectSpec: None or Some(what getSelectedClients returned)
    isRegistered,          \* FederatedClient.isRegistered (clientId is set with it)
    isTraining,            \* FederatedClient.isTraining
    pollingInterval,       \* FederatedClient.pollingInterval: Null or a timer handle
    intervals,             \* the handles of the client's active setInterval timers
    callbacks,             \* the polling callbacks suspended at an await
    registration,          \* the register() calls so far; the latest is the clientId
    served,                \* what the server holds for the client: the round and
                           \* the client's status and submission in it
    submitRequests,        \* round -> submit-weights requests the client sent in it
    completion             \* None, or Some(what waitForFLCompletion returned)

orchVars == <<clients, rounds, currentRound, globalModel, currentRoundNumber,
              isAggregating, roundDeadline, roundStartTime, serverConfig,
              REQUIRED_CLIENTS, TOTAL_ROUNDS, clientTimingMetrics, roundMeanTimes,
              overallMeanTime, clientMetrics, previousRoundMetrics, timers,
              pendingSubmits, nextId, lastRegistration, faults>>
fcVars == <<isRegistered, isTraining, pollingInterval, intervals, callbacks,
            registration, served, submitRequests>>
\* the variables of the parts that are specified on their own
avgVars == <<avgIn, avgNum, avgOut, selected, fcVars, completion>>
idVars == <<nextId, lastRegistration>>
vars == <<orchVars, avgVars>>

(***************************************************************************)
(* Binary floating point, round to nearest, ties to even.  A finite number *)
(* is <<m, e>> = m * 2^e with m = 0 (and e = 0) or m odd, |m| < 2^MantBits.*)
(* Exponents are unbounded (no overflow or underflow).                     *)
(***************************************************************************)
RECURSIVE Pow2(_)
Pow2(n) == IF n <= 0 THEN 1 ELSE 2 * Pow2(n - 1)

RECURSIVE BitLen(_)
BitLen(n) == IF n = 0 THEN 0 ELSE 1 + BitLen(n \div 2)

Abs(n) == IF n < 0 THEN -n ELSE n

RECURSIVE Norm(_, _)
Norm(m, e) == IF m = 0 THEN <<0, 0>>
              ELSE IF m % 2 = 0 THEN Norm(m \div 2, e + 1)
              ELSE <<m, e>>

\* The float nearest to n * 2^e, for an integer n >= 0.
RoundTo(n, e) ==
    LET b == BitLen(n) IN
    IF b <= MantBits THEN Norm(n, e)
    ELSE LET sh == b - MantBits
             hi == n \div Pow2(sh)
             lo == n % Pow2(sh)
             half == Pow2(sh - 1)
             up == lo > half \/ (lo = half /\ hi % 2 = 1)
         IN Norm(IF up THEN hi + 1 ELSE hi, e + sh)

Neg(x) == IF x = NaN THEN NaN ELSE <<-x[1], x[2]>>

\* x + y as JavaScript's number addition.
FAdd(x, y) ==
    IF x = NaN \/ y = NaN THEN NaN
    ELSE LET e0 == IF x[2] < y[2] THEN x[2] ELSE y[2]
             n == x[1] * Pow2(x[2] - e0) + y[1] * Pow2(y[2] - e0)
         IN IF n < 0 THEN Neg(RoundTo(-n, e0)) ELSE RoundTo(n, e0)

\* x / k for an integer k >= 1.
FDiv(x, k) ==
    IF x = NaN THEN NaN
    ELSE IF x[1] = 0 THEN <<0, 0>>
    ELSE LET s == MantBits + 1 + BitLen(k)
             a == Abs(x[1]) * Pow2(s)
             q == a \div k
             r == a % k
             n == 2 * q + (IF r = 0 THEN 0 ELSE 1)
             v == RoundTo(n, x[2] - s - 1)
         IN IF x[1] < 0 THEN Neg(v) ELSE v

Flt(n) == Norm(n, 0)

\* x > y
FGreater(x, y) ==
    LET e0 == IF x[2] < y[2] THEN x[2] ELSE y[2]
    IN x[1] * Pow2(x[2] - e0) > y[1] * Pow2(y[2] - e0)

(***************************************************************************)
(* Model updates.  A tensor is [data, shape]; an update maps layer names   *)
(* to sequences of tensors; a clientWeights object is the sequence of its  *)
(* [id, w] entries in insertion order (the order for-in visits them).      *)
(***************************************************************************)
NoLayers == [l \in {} |-> <<>>]

HasSlot(w, l, i, j) ==
    l \in DOMAIN w /\ i <= Len(w[l]) /\ j <= Len(w[l][i].data)

\* integer c times x
FScale(x, c) ==
    IF x = NaN THEN NaN
    ELSE IF x[1] < 0 THEN Neg(RoundTo((-x[1]) * c, x[2])) ELSE RoundTo(x[1] * c, x[2])

\* the update is added without the division by numClients
AddSlotUndivided(prev, w, l, i, j, numClients) ==
    IF ~HasSlot(w, l, i, j) THEN prev
    ELSE IF prev = Undefined THEN NaN
    ELSE FAdd(prev, w[l][i].data[j])

\* aggregatedWeights[l][i].data[j] += w[l][i].data[j] / numClients, on the
\* value `prev` of the slot
AddSlot(prev, w, l, i, j, numClients) ==
    IF ~HasSlot(w, l, i, j) THEN prev
    ELSE IF prev = Undefined THEN NaN
    ELSE FAdd(prev, FDiv(w[l][i].data[j], numClients))

\* aggregatedWeights[l][i].data[j] once the first n clients have been added
\* (the slot's previous value is computed once, then used).
RECURSIVE AccumulateAt(_, _, _, _, _)
AccumulateAt(cw, l, i, j, n) ==
    IF n = 0
    THEN IF j <= Len(cw[1].w[l][i].data) THEN Flt(0) ELSE Undefined
    ELSE CHOOSE next \in {AddSlot(prev, cw[n].w, l, i, j, Len(cw)) :
                             prev \in {AccumulateAt(cw, l, i, j, n - 1)}} : TRUE

RECURSIVE MaxDataLen(_, _, _, _)
MaxDataLen(cw, l, i, n) ==
    IF n = 0 THEN 0
    ELSE LET rest == MaxDataLen(cw, l, i, n - 1)
             w == cw[n].w
             mine == IF l \in DOMAIN w /\ i <= Len(w[l])
                     THEN Len(w[l][i].data) ELSE 0
         IN IF mine > rest THEN mine ELSE rest

\* `aggregatedWeights[layerName][i].data[j] += ...` on a layer or tensor the
\* first client does not have reads a property of undefined.
AveragingThrows(cw) ==
    \E n \in 1..Len(cw) : \E l \in DOMAIN cw[n].w :
        \E i \in 1..Len(cw[n].w[l]) :
            /\ Len(cw[n].w[l][i].data) > 0
            /\ (l \notin DOMAIN cw[1].w \/ i > Len(cw[1].w[l]))

RECURSIVE SumTo(_, _)
SumTo(q, n) == IF n = 0 THEN 0 ELSE q[n] + SumTo(q, n - 1)

\* the slot when client n's update weighs numData[n] / sum(numData)
RECURSIVE WeightedAt(_, _, _, _, _, _)
WeightedAt(cw, numData, l, i, j, n) ==
    IF n = 0
    THEN IF j <= Len(cw[1].w[l][i].data) THEN Flt(0) ELSE Undefined
    ELSE CHOOSE next \in
             {IF ~HasSlot(cw[n].w, l, i, j) THEN prev
              ELSE IF prev = Undefined THEN NaN
              ELSE FAdd(prev, FDiv(FScale(cw[n].w[l][i].data[j], numData[n]),
                                   SumTo(numData, Len(numData)))) :
                  prev \in {WeightedAt(cw, numData, l, i, j, n - 1)}} : TRUE

\* the averaging with every update weighted by its client's sample count
federatedAveragingByNumData(clientWeights) ==
    IF Len(clientWeights) = 0 THEN NoLayers
    ELSE IF AveragingThrows(clientWeights) THEN TypeError
    ELSE [l \in DOMAIN clientWeights[1].w |->
            [i \in 1..Len(clientWeights[1].w[l]) |->
                [data |-> [j \in 1..MaxDataLen(clientWeights, l, i, Len(clientWeights)) |->
                              WeightedAt(clientWeights, avgNum, l, i, j,
                                         Len(clientWeights))],
                 shape |-> clientWeights[1].w[l][i].shape]]]

federatedAveragingAll(clientWeights) ==
    IF Len(clientWeights) = 0 THEN NoLayers
    ELSE IF AveragingThrows(clientWeights) THEN TypeError
    ELSE [l \in DOMAIN clientWeights[1].w |->
            [i \in 1..Len(clientWeights[1].w[l]) |->
                [data |-> [j \in 1..MaxDataLen(clientWeights, l, i, Len(clientWeights)) |->
                              AccumulateAt(clientWeights, l, i, j, Len(clientWeights))],
                 shape |-> clientWeights[1].w[l][i].shape]]]

(***************************************************************************)
(* Program constants, in milliseconds.                                     *)
(***************************************************************************)
MinDeadlineMs == 10000
MaxDeadlineMs == 60000
DefaultDeadlineMs == 30000
SettleDelayMs == 1000
MinAggregationInterval == 100

\* One clock unit is the settle delay; every duration is a whole number of
\* units, and a mean time is rounded down to the unit.
TimeUnit == SettleDelayMs
MinDeadline == MinDeadlineMs \div TimeUnit
MaxDeadline == MaxDeadlineMs \div TimeUnit
DefaultDeadline == DefaultDeadlineMs \div TimeUnit
SettleDelay == SettleDelayMs \div TimeUnit

(***************************************************************************)
(* Inputs.                                                                 *)
(***************************************************************************)
Ids == 1..MaxIds
RoundCounts == 1..MaxRounds
SyncCounts == 0..MaxRounds
\* trainingTime + communicationTime of a submission, in clock units
TimeVals == {40}
\* losses the evaluation can report, besides NaN and a thrown error
LossVals == {1, 2}
LossNaN == 0 - 1
EvalError == 0 - 2
\* the loss Infinity, and the NaN that Infinity - Infinity gives
Infinity == 1000
DifferenceNaN == 2000
\* what the evaluation of client c's update can report: each client trains
\* on its own data
LossesOf(c) == IF c = 1 THEN {1, LossNaN, Infinity, EvalError} ELSE IF c = 2 THEN {2} ELSE {1}
NumDataVals == {100}

Tensor(vals) == [data |-> [j \in 1..Len(vals) |-> Flt(vals[j])], shape |-> <<Len(vals)>>]
ZeroUpdate == [layer_0 |-> <<Tensor(<<0>>)>>]
OneUpdate == [layer_0 |-> <<Tensor(<<25>>)>>]
ExtraLayerUpdate == [layer_0 |-> <<Tensor(<<0>>)>>, layer_x |-> <<Tensor(<<1>>)>>]
Updates == {OneUpdate, ExtraLayerUpdate}
\* the update client c sends
UpdatesOf(c) == IF c = MaxIds THEN {ExtraLayerUpdate} ELSE {OneUpdate}

(***************************************************************************)
(* Helpers over the program's collections.                                 *)
(***************************************************************************)
\* the round counter is followed up to this number
MaxRoundNo == MaxRounds
NoTimers == {}
EmptyMap == [x \in {} |-> 0]

Size(m) == Cardinality(DOMAIN m)

MapSet(m, k, v) == [x \in DOMAIN m \cup {k} |-> IF x = k THEN v ELSE m[x]]

MapDelete(m, k) == [x \in DOMAIN m \ {k} |-> m[x]]

RECURSIVE SumSeq(_)
SumSeq(q) == IF q = <<>> THEN 0 ELSE Head(q) + SumSeq(Tail(q))

RECURSIVE SetToSeq(_)
SetToSeq(S) == IF S = {} THEN <<>>
               ELSE LET x == CHOOSE y \in S : \A z \in S : y <= z
                    IN <<x>> \o SetToSeq(S \ {x})


\* A pending callback is <<kind, clock units left, tag>>; the tag is the number
\* of the round that armed it, which tells the callbacks apart.
setTimeout(tm, kind, delay, tag) == tm \cup {<<kind, delay, tag>>}

\* The pending callback <<kind, 0, tag>> is taken off the timer list.
TimerDue(kind, tag) == <<kind, 0, tag>> \in timers
TimerTaken(kind, tag) == timers \ {<<kind, 0, tag>>}

(***************************************************************************)
(* ModelQualityCalculator.                                                 *)
(***************************************************************************)
NeutralQuality == 500000

\* isFinite, and the subtraction of two losses
IsFinite(x) == x \notin {Infinity, 0 - Infinity, DifferenceNaN}

Minus(a, b) ==
    IF a = Infinity /\ b = Infinity THEN DifferenceNaN
    ELSE IF a = Infinity THEN Infinity
    ELSE IF b = Infinity THEN 0 - Infinity
    ELSE a - b

\* the float nearest to q millionths
Quality(q) == IF q < 0 THEN Neg(RoundTo(-q, 0)) ELSE RoundTo(q, 0)

\* 1 - exp(+-THETA * (|loss| * numData)^PHI), the float nearest to it in
\* millionths, for the losses, loss differences and sample counts of the model.
computeModelQuality(loss, numData) ==
    Quality(
    IF ~IsFinite(loss) THEN NeutralQuality
    ELSE IF numData <= 0 THEN NeutralQuality
    ELSE CASE loss = 0 -> 0
           [] loss = 1 /\ numData = 100 -> -105171
           [] loss = 2 /\ numData = 100 -> -151910
           [] loss = -1 /\ numData = 100 -> 95163
           [] loss = -2 /\ numData = 100 -> 131877
           [] loss = 1 /\ numData = 400 -> -221403
           [] loss = 2 /\ numData = 400 -> -326896
           [] loss = -1 /\ numData = 400 -> 181269
           [] loss = -2 /\ numData = 400 -> 246362)

MetricIndex(metrics, clientId) ==
    IF \E n \in 1..Len(metrics) : metrics[n].clientId = clientId
    THEN CHOOSE n \in 1..Len(metrics) : metrics[n].clientId = clientId
    ELSE 0

\* Map.set: an existing key keeps its place, a new one goes last.
MetricsSet(metrics, m) ==
    LET n == MetricIndex(metrics, m.clientId)
    IN IF n = 0 THEN Append(metrics, m) ELSE [metrics EXCEPT ![n] = m]

\* evaluateModel once the evaluation reported `loss` (or threw): the new
\* <<clientMetrics, previousRoundMetrics>> and the quality it returns.
evaluateModel(metrics, previous, clientId, loss, numData) ==
    IF loss = EvalError \/ loss = LossNaN
    THEN <<metrics, previous, Quality(NeutralQuality)>>
    ELSE LET previousLoss == IF clientId \in DOMAIN previous /\ previous[clientId] # 0
                             THEN Some(previous[clientId]) ELSE None
             lossDifference == IF previousLoss # None
                               THEN Some(Minus(previousLoss[1], loss)) ELSE None
             quality == computeModelQuality(
                            IF /\ lossDifference # None
                               /\ lossDifference[1] \notin {0, DifferenceNaN}
                            THEN lossDifference[1] ELSE loss, numData)
         IN <<MetricsSet(metrics, [clientId |-> clientId, loss |-> loss,
                                   previousLoss |-> previousLoss,
                                   lossDifference |-> lossDifference,
                                   numData |-> numData, quality |-> quality]),
              MapSet(previous, clientId, loss),
              quality>>

\* metrics.reduce((sum, m) => sum + m.quality, 0) over the first n entries
RECURSIVE QualitySum(_, _)
QualitySum(metrics, n) ==
    IF n = 0 THEN Flt(0)
    ELSE FAdd(QualitySum(metrics, n - 1), metrics[n].quality)

meanQuality(metrics) == FDiv(QualitySum(metrics, Len(metrics)), Len(metrics))

\* a quality equal to the mean passes the filter
ReachesMean(quality, mean) == ~FGreater(mean, quality)

\* the filter `m.quality > meanQuality`
Exceeds(quality, mean) == FGreater(quality, mean)

RECURSIVE AboveMean(_, _, _)
AboveMean(metrics, mean, n) ==
    IF n = 0 THEN <<>>
    ELSE LET rest == AboveMean(metrics, mean, n - 1)
         IN IF Exceeds(metrics[n].quality, mean)
            THEN Append(rest, metrics[n].clientId) ELSE rest

getSelectedClients(metrics) ==
    IF metrics = <<>> THEN <<>>
    ELSE AboveMean(metrics, meanQuality(metrics), Len(metrics))

(***************************************************************************)
(* The orchestrator's helpers.  `cur` and `cl` are currentRound and        *)
(* clients as the running handler has left them.                           *)
(***************************************************************************)
shouldUseSynchronousMode(roundNumber) ==
    roundNumber <= serverConfig.synchronousRounds

hasDeadlinePassed == roundDeadline # Null /\ roundDeadline = 0

haveAllClientsSubmitted(cur, cl) ==
    IF cur = NullObj THEN FALSE ELSE Size(cur.clients) = Size(cl)

shouldStartAggregation(cur, cl) ==
    IF shouldUseSynchronousMode(currentRoundNumber)
    THEN haveAllClientsSubmitted(cur, cl)
    ELSE haveAllClientsSubmitted(cur, cl) \/ hasDeadlinePassed

\* calculateAndStoreRoundMeanTime and calculateOverallMeanTime: the new
\* <<roundMeanTimes, overallMeanTime>>.
calculateAndStoreRoundMeanTime(roundNumber) ==
    LET who == {c \in DOMAIN clientTimingMetrics :
                    Len(clientTimingMetrics[c]) >= roundNumber}
        times == [n \in 1..Cardinality(who) |->
                    clientTimingMetrics[SetToSeq(who)[n]][roundNumber]]
    IN IF who = {} THEN <<roundMeanTimes, overallMeanTime>>
       ELSE LET rmt == MapSet(roundMeanTimes, roundNumber,
                              SumSeq(times) \div Len(times))
                all == [n \in 1..Size(rmt) |-> rmt[SetToSeq(DOMAIN rmt)[n]]]
            IN <<rmt, SumSeq(all) \div Len(all)>>

\* the duration without the clamp
deadlineUnclamped ==
    IF overallMeanTime = 0 THEN DefaultDeadline ELSE overallMeanTime

\* Math.max(10000, Math.min(60000, overallMeanTime || 30000))
deadlineMs ==
    LET t == IF overallMeanTime = 0 THEN DefaultDeadline ELSE overallMeanTime
        lo == IF t < MaxDeadline THEN t ELSE MaxDeadline
    IN IF lo > MinDeadline THEN lo ELSE MinDeadline

(***************************************************************************)
(* startNewRound and performAggregation.                                   *)
(***************************************************************************)
NewRound(roundId) ==
    [roundId |-> roundId, clients |-> EmptyMap, aggregated |-> NullObj,
     status |-> "in_progress"]

\* the guard does not look at the round in progress
startNewRoundIgnoresRound(cur, cl) ==
    ~(Size(cl) < REQUIRED_CLIENTS \/ currentRoundNumber >= TOTAL_ROUNDS \/ isAggregating)

\* the guard does not look at the number of registered clients
startNewRoundAnyRegistry(cur, cl) ==
    ~(cur # NullObj \/ currentRoundNumber >= TOTAL_ROUNDS \/ isAggregating)

\* startNewRound up to its `await initializeModel`: whether the call goes on.
startNewRoundProceeds(cur, cl) ==
    ~(cur # NullObj \/ Size(cl) < REQUIRED_CLIENTS
      \/ currentRoundNumber >= TOTAL_ROUNDS \/ isAggregating)

\* the variables a call of startNewRound sets, the registry apart
startVars == <<currentRound, currentRoundNumber, isAggregating, roundDeadline,
               roundStartTime, clientMetrics, previousRoundMetrics, timers, faults>>

\* clearAllMetrics: the quality table and the previous losses are emptied
clearAllMetrics(metrics, previous) == <<<<>>, EmptyMap>>

\* clearMetrics: the quality table is emptied, the previous losses stay; the
\* new <<clientMetrics, previousRoundMetrics>>
clearMetrics(metrics, previous) == <<<<>>, previous>>

\* the failed start leaves the round it was about to create
roundLeftBehind == NewRound(currentRoundNumber + 1)

\* `currentRound = null` in the catch block of startNewRound
currentRoundAfterCatch == NullObj

\* A call of startNewRound with the round `cur`, the registry `cl` and the
\* timer list `tm`.  initializeModel has no suspension point of its own, so
\* what follows `await initializeModel` runs before any other handler or
\* callback; `ok` tells whether initializeModel returned or threw.
startNewRound(cur, cl, tm, ok) ==
    IF ~startNewRoundProceeds(cur, cl)
    THEN /\ ok
         /\ currentRound' = cur
         /\ clients' = cl
         /\ timers' = tm
         /\ UNCHANGED <<currentRoundNumber, isAggregating, roundDeadline, roundStartTime,
                        clientMetrics, previousRoundMetrics, faults>>
    ELSE IF ok
    THEN /\ clientMetrics' = clearMetrics(clientMetrics, previousRoundMetrics)[1]
         /\ previousRoundMetrics' = clearMetrics(clientMetrics, previousRoundMetrics)[2]
         /\ currentRoundNumber' = currentRoundNumber + 1
         /\ currentRound' = NewRound(currentRoundNumber + 1)
         /\ roundStartTime' = 0
         /\ IF shouldUseSynchronousMode(currentRoundNumber + 1)
            THEN /\ roundDeadline' = Null
                 /\ timers' = tm
            ELSE /\ roundDeadline' = deadlineMs
                 /\ timers' = setTimeout(tm, "deadline", deadlineMs, currentRoundNumber + 1)
         /\ clients' = [c \in DOMAIN cl |-> "training"]
         /\ UNCHANGED <<isAggregating, faults>>
    ELSE \* the catch block
         /\ faults < MaxFaults
         /\ faults' = faults + 1
         /\ currentRound' = currentRoundAfterCatch
         /\ isAggregating' = FALSE
         /\ roundDeadline' = Null
         /\ roundStartTime' = Null
         /\ clients' = cl
         /\ timers' = tm
         /\ UNCHANGED <<currentRoundNumber, clientMetrics, previousRoundMetrics>>

\* selectedWeights: the updates of the first n selected clients that have one.
RECURSIVE SelectWeights(_, _, _)
SelectWeights(selectedClients, submitted, n) ==
    IF n = 0 THEN <<>>
    ELSE LET rest == SelectWeights(selectedClients, submitted, n - 1)
             c == selectedClients[n]
         IN IF c \in DOMAIN submitted
            THEN Append(rest, [id |-> c, w |-> submitted[c]]) ELSE rest

\* the round is left in place after it was archived
currentRoundKept(cur) == cur

\* `currentRound = null` once the round `cur` is archived
currentRoundAfterAggregation(cur) == NullObj

\* the guard is not released when the aggregation threw
isAggregatingHeldOnError(threw) == threw

\* isAggregating when performAggregation reaches its await or leaves through
\* its catch: `isAggregating = false` on both ways
isAggregatingAfter(threw) == FALSE

\* the completed round takes the place of the round archived last
archiveOverLast(archive, cur, aggregatedWeights) ==
    LET done == [cur EXCEPT !.aggregated = aggregatedWeights, !.status = "completed"]
    IN IF archive = <<>> THEN <<done>> ELSE [archive EXCEPT ![Len(archive)] = done]

\* the round is completed and `rounds.push(currentRound)`
archiveRound(archive, cur, aggregatedWeights) ==
    Append(archive, [cur EXCEPT !.aggregated = aggregatedWeights,
                                !.status = "completed"])

\* performAggregation up to its first await, run on the round `cur` with the
\* registry `cl`, the quality table `metrics` and the timer list `tm`.
performAggregation(cur, cl, metrics, tm) ==
    IF cur = NullObj \/ isAggregating
    THEN /\ currentRound' = cur
         /\ clients' = cl
         /\ timers' = tm
         /\ UNCHANGED <<rounds, globalModel, isAggregating, roundDeadline,
                        roundStartTime, roundMeanTimes, overallMeanTime>>
    ELSE
    \E mt \in {calculateAndStoreRoundMeanTime(currentRoundNumber)} :
    \E selectedClients \in {getSelectedClients(metrics)} :
    \E selectedWeights \in {SelectWeights(selectedClients, cur.clients,
                                          Len(selectedClients))} :
    \E aggregatedWeights \in {federatedAveragingAll(selectedWeights)} :
       /\ roundMeanTimes' = mt[1]
       /\ overallMeanTime' = mt[2]
       /\ isAggregating' = isAggregatingAfter(aggregatedWeights = TypeError)
       /\ IF aggregatedWeights = TypeError
          THEN /\ currentRound' = cur
               /\ clients' = cl
               /\ timers' = tm
               /\ UNCHANGED <<rounds, globalModel, roundDeadline, roundStartTime>>
          ELSE /\ globalModel' = aggregatedWeights
               /\ rounds' = archiveRound(rounds, cur, aggregatedWeights)
               /\ currentRound' = currentRoundAfterAggregation(cur)
               /\ roundDeadline' = Null
               /\ roundStartTime' = Null
               /\ clients' = [c \in DOMAIN cl |-> "idle"]
               /\ timers' = IF currentRoundNumber < TOTAL_ROUNDS
                            THEN setTimeout(tm, "settle", SettleDelay, currentRoundNumber)
                            ELSE tm

(***************************************************************************)
(* Actions: the HTTP handlers.                                             *)
(***************************************************************************)
cfgVars == <<serverConfig, REQUIRED_CLIENTS, TOTAL_ROUNDS>>
qualityVars == <<clientMetrics, previousRoundMetrics>>
timingVars == <<clientTimingMetrics, roundMeanTimes, overallMeanTime>>
roundVars == <<rounds, currentRound, globalModel, currentRoundNumber, isAggregating,
               roundDeadline, roundStartTime>>

\* `client_${timestamp}_${randomSuffix}`: an id that no registration has
\* generated yet, or the id of the latest registration when Date.now() and
\* Math.random() return what they returned then
GeneratedIds == {nextId} \cup ({lastRegistration} \ {Null})

\* nextId after clientId was generated
NextIdAfter(clientId) == IF clientId = nextId THEN nextId + 1 ELSE nextId

\* the registration that fills the registry does not call startNewRound
RegisterNoStart(ok) ==
    /\ nextId <= MaxIds
    /\ ok
    /\ IF Size(clients) >= REQUIRED_CLIENTS
       THEN UNCHANGED <<clients, idVars>>
       ELSE \E clientId \in GeneratedIds :
               /\ clients' = MapSet(clients, clientId, "idle")
               /\ nextId' = NextIdAfter(clientId)
               /\ lastRegistration' = clientId
    /\ UNCHANGED startVars
    /\ UNCHANGED <<rounds, globalModel, cfgVars, timingVars, pendingSubmits, avgVars>>

\* POST /register
Register(ok) ==
    /\ nextId <= MaxIds
    /\ IF Size(clients) >= REQUIRED_CLIENTS
       THEN ok /\ UNCHANGED <<clients, idVars, startVars>>  \* 400
       ELSE \E clientId \in GeneratedIds :
            LET cl == MapSet(clients, clientId, "idle")
            IN /\ nextId' = NextIdAfter(clientId)
               /\ lastRegistration' = clientId
               /\ IF Size(cl) = REQUIRED_CLIENTS
                  THEN startNewRound(currentRound, cl, timers, ok)
                  ELSE ok /\ clients' = cl /\ UNCHANGED startVars
    /\ UNCHANGED <<rounds, globalModel, cfgVars, timingVars, pendingSubmits, avgVars>>

\* GET /round-status?clientId=
RoundStatus(clientId, ok) ==
    /\ IF clientId \notin DOMAIN clients
       THEN ok /\ UNCHANGED <<clients, startVars>>  \* 400
       ELSE IF currentRound = NullObj /\ Size(clients) >= REQUIRED_CLIENTS
               /\ currentRoundNumber < TOTAL_ROUNDS /\ ~isAggregating
            THEN startNewRound(currentRound, clients, timers, ok)
            ELSE ok /\ UNCHANGED <<clients, startVars>>
    /\ UNCHANGED <<idVars, rounds, globalModel, cfgVars, timingVars, pendingSubmits,
                   avgVars>>

\* a model without layers counts as no model
GetGlobalModelEmptyIsAbsent ==
    IF globalModel = NullObj \/ DOMAIN globalModel = {}
    THEN [status |-> 404]
    ELSE [status |-> 200, weights |-> globalModel]

\* GET /global-model: the response; it changes nothing
GetGlobalModel ==
    IF globalModel = NullObj
    THEN [status |-> 404]
    ELSE [status |-> 200, weights |-> globalModel]

\* the `mode` field of the /round-status response while a round is in progress
ReportedMode ==
    IF shouldUseSynchronousMode(currentRoundNumber) THEN "synchronous" ELSE "asynchronous"

\* the removal also takes the client's update out of the round in progress
DeleteClientDropsSubmission(clientId) ==
    /\ faults < MaxFaults
    /\ faults' = faults + 1
    /\ IF clientId \notin DOMAIN clients
       THEN UNCHANGED <<clients, currentRound>>
       ELSE /\ clients' = MapDelete(clients, clientId)
            /\ currentRound' =
                   IF currentRound = NullObj THEN currentRound
                   ELSE [currentRound EXCEPT !.clients = MapDelete(@, clientId)]
    /\ UNCHANGED <<idVars, rounds, globalModel, currentRoundNumber, isAggregating,
                   roundDeadline, roundStartTime, cfgVars, timingVars, qualityVars,
                   timers, pendingSubmits, avgVars>>

\* DELETE /clients/:clientId
DeleteClient(clientId) ==
    /\ faults < MaxFaults
    /\ faults' = faults + 1
    /\ IF clientId \notin DOMAIN clients
       THEN UNCHANGED clients  \* 404
       ELSE clients' = MapDelete(clients, clientId)
    /\ UNCHANGED <<idVars, roundVars, cfgVars, timingVars, qualityVars, timers,
                   pendingSubmits, avgVars>>

\* `v < min` of JavaScript: false when v is not a number
Below(v, min) == v # NotANumber /\ v < min

\* POST /config that also empties the evaluator's quality table
PostConfigClearsMetrics(newConfig) ==
    /\ faults < MaxFaults
    /\ faults' = faults + 1
    /\ IF \/ (newConfig.totalRounds # Null /\ Below(newConfig.totalRounds, 1))
          \/ (newConfig.requiredClients # Null /\ Below(newConfig.requiredClients, 1))
          \/ (newConfig.aggregationInterval # Null
                /\ Below(newConfig.aggregationInterval, MinAggregationInterval))
       THEN UNCHANGED <<cfgVars, clientMetrics>>
       ELSE LET merged == [f \in DOMAIN serverConfig |->
                             IF newConfig[f] # Null THEN newConfig[f]
                             ELSE serverConfig[f]]
            IN /\ serverConfig' = merged
               /\ REQUIRED_CLIENTS' = merged.requiredClients
               /\ TOTAL_ROUNDS' = merged.totalRounds
               /\ clientMetrics' = <<>>
    /\ UNCHANGED <<clients, idVars, roundVars, timingVars, previousRoundMetrics, timers,
                   pendingSubmits, avgVars>>

\* POST /config; a field of newConfig is Null when the body leaves it out.
PostConfig(newConfig) ==
    /\ faults < MaxFaults
    /\ faults' = faults + 1
    /\ IF \/ (newConfig.totalRounds # Null /\ Below(newConfig.totalRounds, 1))
          \/ (newConfig.requiredClients # Null /\ Below(newConfig.requiredClients, 1))
          \/ (newConfig.aggregationInterval # Null
                /\ Below(newConfig.aggregationInterval, MinAggregationInterval))
       THEN UNCHANGED cfgVars  \* 400
       ELSE LET merged == [f \in DOMAIN serverConfig |->
                             IF newConfig[f] # Null THEN newConfig[f]
                             ELSE serverConfig[f]]
            IN /\ serverConfig' = merged
               /\ REQUIRED_CLIENTS' = merged.requiredClients
               /\ TOTAL_ROUNDS' = merged.totalRounds
    /\ UNCHANGED <<clients, idVars, roundVars, timingVars, qualityVars, timers,
                   pendingSubmits, avgVars>>

\* POST /submit-weights up to its `await evaluateModel`
SubmitWeights(clientId, weights, numData, time) ==
    /\ IF clientId \notin DOMAIN clients \/ currentRound = NullObj
       THEN UNCHANGED <<clientTimingMetrics, pendingSubmits>>  \* 400
       ELSE IF clientId \in DOMAIN currentRound.clients
       THEN UNCHANGED <<clientTimingMetrics, pendingSubmits>>  \* 400, already submitted
       ELSE /\ BagCardinality(pendingSubmits) < MaxPendingSubmits
            /\ clientTimingMetrics' =
                   MapSet(clientTimingMetrics, clientId,
                          Append(IF clientId \in DOMAIN clientTimingMetrics
                                 THEN clientTimingMetrics[clientId] ELSE <<>>, time))
            /\ pendingSubmits' = pendingSubmits (+) SetToBag({
                   [clientId |-> clientId, weights |-> weights, numData |-> numData,
                    round |-> currentRoundNumber]})
    /\ UNCHANGED <<clients, idVars, roundVars, cfgVars, roundMeanTimes, overallMeanTime,
                   qualityVars, timers, faults, avgVars>>

\* the status of the response of POST /submit-weights once evaluateModel has
\* returned: with no round in progress `currentRound.modelWeights` throws and
\* the handler's catch answers 500
SubmitWeightsStatus(cur) == IF cur = NullObj THEN 500 ELSE 200

\* POST /submit-weights from the return of evaluateModel, whose evaluation
\* reported `loss`, to the response.
SubmitWeightsResume(p, loss) ==
    LET ev == evaluateModel(clientMetrics, previousRoundMetrics, p.clientId, loss,
                            p.numData)
        cl == MapSet(clients, p.clientId, "aggregating")
    IN /\ BagIn(p, pendingSubmits)
       /\ IF loss \in LossVals THEN faults' = faults
          ELSE faults < MaxFaults /\ faults' = faults + 1
       /\ pendingSubmits' = pendingSubmits (-) SetToBag({p})
       /\ clientMetrics' = ev[1]
       /\ previousRoundMetrics' = ev[2]
       /\ IF currentRound = NullObj
          THEN \* currentRound.modelWeights throws; the handler's catch answers 500
               /\ clients' = cl
               /\ UNCHANGED <<roundVars, roundMeanTimes, overallMeanTime, timers>>
          ELSE LET cur == [currentRound EXCEPT !.clients = MapSet(@, p.clientId, p.weights)]
               IN IF shouldStartAggregation(cur, cl)
                  THEN performAggregation(cur, cl, ev[1], timers)
                  ELSE /\ currentRound' = cur
                       /\ clients' = cl
                       /\ UNCHANGED <<rounds, globalModel, isAggregating, roundDeadline,
                                      roundStartTime, roundMeanTimes, overallMeanTime,
                                      timers>>
       /\ UNCHANGED <<idVars, currentRoundNumber, cfgVars, clientTimingMetrics,
                      avgVars>>

(***************************************************************************)
(* Actions: continuations and timers.                                      *)
(***************************************************************************)
\* The deadline callback armed by round `tag`
DeadlineTimer(tag) ==
    /\ TimerDue("deadline", tag)
    /\ IF currentRound # NullObj /\ ~isAggregating
       THEN performAggregation(currentRound, clients, clientMetrics, TimerTaken("deadline", tag))
       ELSE /\ timers' = TimerTaken("deadline", tag)
            /\ UNCHANGED <<clients, roundVars, roundMeanTimes, overallMeanTime>>
    /\ UNCHANGED <<currentRoundNumber, cfgVars, clientTimingMetrics, qualityVars,
                   pendingSubmits, idVars, faults, avgVars>>

\* the callback runs and starts nothing
SettleTimerNoStart(tag, ok) ==
    /\ TimerDue("settle", tag)
    /\ ok
    /\ timers' = TimerTaken("settle", tag)
    /\ UNCHANGED <<clients, roundVars, cfgVars, timingVars, qualityVars, pendingSubmits,
                   idVars, faults, avgVars>>

\* setTimeout(startNewRound, 1000), armed when round `tag` completed
SettleTimer(tag, ok) ==
    /\ TimerDue("settle", tag)
    /\ startNewRound(currentRound, clients, TimerTaken("settle", tag), ok)
    /\ UNCHANGED <<idVars, rounds, globalModel, cfgVars, timingVars, pendingSubmits,
                   avgVars>>

\* The clock runs on to the next pending callback; a callback that is due
\* runs first.
Tick ==
    /\ timers # {}
    /\ {k \in timers : k[2] = 0} = {}
    /\ LET d == CHOOSE n \in {k[2] : k \in timers} : \A k \in timers : n <= k[2]
       IN /\ timers' = {<<k[1], k[2] - d, k[3]>> : k \in timers}
          /\ roundDeadline' = IF roundDeadline = Null THEN Null
                              ELSE IF roundDeadline > d THEN roundDeadline - d ELSE 0
          /\ roundStartTime' = IF roundStartTime # Null THEN roundStartTime + d ELSE Null
    /\ UNCHANGED <<clients, rounds, currentRound, globalModel, currentRoundNumber,
                   isAggregating, cfgVars, timingVars, qualityVars, pendingSubmits,
                   nextId, faults, avgVars>>
    /\ lastRegistration' = Null

(***************************************************************************)
(* The federated averaging on its own: an input is built entry by entry    *)
(* and averaged.                                                           *)
(***************************************************************************)
AvgVals == {0, 1, 25, -3}
AvgNumData == {1, 3}
AvgUpdates ==
    {[layer_0 |-> <<Tensor(<<v>>)>>] : v \in AvgVals}
    \cup {[layer_0 |-> <<Tensor(<<1, 25>>)>>],
          [layer_0 |-> <<Tensor(<<1>>), Tensor(<<25>>)>>],
          ExtraLayerUpdate}

AvgAdd(w, numData) ==
    /\ Len(avgIn) < MaxK
    /\ avgIn' = Append(avgIn, [id |-> Len(avgIn) + 1, w |-> w])
    /\ avgNum' = Append(avgNum, numData)
    /\ avgOut' = NullObj
    /\ UNCHANGED <<orchVars, selected, fcVars, completion>>

AvgRun ==
    /\ avgOut = NullObj
    /\ avgOut' = federatedAveragingAll(avgIn)
    /\ UNCHANGED <<avgIn, avgNum, orchVars, selected, fcVars, completion>>

(***************************************************************************)
(* FederatedClient (client/src/services/FederatedClient.ts): one browser   *)
(* client, and what the server holds for it.  A polling callback that      *)
(* waits at an await is an entry of `callbacks`; its pc names the call it  *)
(* waits for.                                                              *)
(***************************************************************************)
MaxCallbacks == 2       \* polling callbacks suspended at once
MaxClientRounds == 2    \* rounds the server runs while the client is watched
MaxRegistrations == 1   \* register() calls of the client

ErrorResponse == [status |-> "error", clientStatus |-> "none", hasSubmitted |-> FALSE]

\* the fields of the /round-status answer that the polling callback reads
roundStatusResponse(sv) ==
    IF ~sv.inProgress
    THEN [status |-> "no_round", clientStatus |-> "none", hasSubmitted |-> FALSE]
    ELSE [status |-> "in_progress", clientStatus |-> sv.clientStatus,
          hasSubmitted |-> sv.hasSubmitted]

\* the status code of POST /submit-weights for a body with this clientId;
\* evaluated tells whether the handler's try block ran to its end
submitWeightsCode(sv, latest, clientId, evaluated) ==
    IF clientId = Null \/ ~sv.inProgress THEN 400
    ELSE IF clientId = latest /\ sv.hasSubmitted THEN 400
    ELSE IF evaluated THEN 200 ELSE 500

RemoveAt(s, i) == [j \in 1..(Len(s) - 1) |-> IF j < i THEN s[j] ELSE s[j + 1]]

\* clearInterval(handle)
clearInterval(active, handle) == active \ {handle}

\* setInterval: the handle of the new timer
setInterval(active) == CHOOSE h \in 1..(Cardinality(active) + 1) : h \notin active

\* the catch block of the polling callback leaves the timers as they are
pollingAfterCatch(handle, active) == <<handle, active>>

\* startPolling: <<pollingInterval, intervals>> after it
startPolling(handle, active) ==
    LET cleared == IF handle # Null THEN clearInterval(active, handle) ELSE active
        h == setInterval(cleared)
    IN <<h, cleared \cup {h}>>

\* register(), with the server's POST /register
register ==
    /\ ~isRegistered
    /\ registration < MaxRegistrations
    /\ registration' = registration + 1
    /\ isRegistered' = TRUE
    /\ served' = [served EXCEPT !.clientStatus = "idle", !.hasSubmitted = FALSE]
    /\ pollingInterval' = startPolling(pollingInterval, intervals)[1]
    /\ intervals' = startPolling(pollingInterval, intervals)[2]
    /\ UNCHANGED <<isTraining, callbacks, submitRequests, orchVars, avgIn, avgNum,
                   avgOut, selected, completion>>

fcFrame == <<registration, orchVars, avgIn, avgNum, avgOut, selected, completion>>

\* the setInterval callback up to `await this.getRoundStatus()`; the server
\* answers the request at once and the answer travels
PollingCallback(ok) ==
    /\ intervals # {}
    /\ Len(callbacks) < MaxCallbacks
    /\ IF isTraining
       THEN UNCHANGED <<isTraining, callbacks>>
       ELSE IF ~isRegistered
       THEN isTraining' = FALSE /\ UNCHANGED callbacks
       ELSE /\ callbacks' = Append(callbacks,
                                   [pc |-> "getRoundStatus",
                                    response |-> IF ok THEN roundStatusResponse(served)
                                                 ELSE ErrorResponse,
                                    clientId |-> Null])
            /\ UNCHANGED isTraining
    /\ UNCHANGED <<isRegistered, pollingInterval, intervals, served, submitRequests,
                   fcFrame>>

StartsTraining(status) ==
    /\ status.status = "in_progress"
    /\ status.clientStatus = "training"
    /\ ~status.hasSubmitted

\* the callback goes on after `await this.getRoundStatus()`
PollingCallbackResumes(i) ==
    LET status == callbacks[i].response
    IN /\ callbacks[i].pc = "getRoundStatus"
       /\ IF status = ErrorResponse
          THEN /\ isTraining' = FALSE
               /\ pollingInterval' = pollingAfterCatch(pollingInterval, intervals)[1]
               /\ intervals' = pollingAfterCatch(pollingInterval, intervals)[2]
               /\ callbacks' = RemoveAt(callbacks, i)
          ELSE IF StartsTraining(status)
          THEN /\ pollingInterval' = Null
               /\ intervals' = clearInterval(intervals, pollingInterval)
               /\ IF isRegistered
                  THEN /\ isTraining' = TRUE
                       /\ callbacks' =
                              [callbacks EXCEPT ![i].pc = "participateInTraining"]
                  ELSE /\ isTraining' = FALSE
                       /\ callbacks' = RemoveAt(callbacks, i)
          ELSE /\ callbacks' = RemoveAt(callbacks, i)
               /\ UNCHANGED <<isTraining, pollingInterval, intervals>>
       /\ UNCHANGED <<isRegistered, served, submitRequests, fcFrame>>

\* participateInTraining up to `await axios.post(.../submit-weights)`; when
\* loading or training fails the error is thrown on to the polling callback
participateInTraining(i, ok) ==
    /\ callbacks[i].pc = "participateInTraining"
    /\ IF ok
       THEN /\ callbacks' =
                   [callbacks EXCEPT ![i].pc = "submit-weights",
                                     ![i].clientId = IF isRegistered
                                                     THEN registration ELSE Null]
            /\ UNCHANGED <<isTraining, pollingInterval, intervals>>
       ELSE /\ callbacks' = RemoveAt(callbacks, i)
            /\ isTraining' = FALSE
            /\ pollingInterval' = pollingAfterCatch(pollingInterval, intervals)[1]
            /\ intervals' = pollingAfterCatch(pollingInterval, intervals)[2]
    /\ UNCHANGED <<isRegistered, served, submitRequests, fcFrame>>

\* the server answers the submit-weights request and the callback goes on
\* after `await this.participateInTraining()`
SubmitWeightsAnswered(i, evaluated) ==
    LET clientId == callbacks[i].clientId
        code == submitWeightsCode(served, registration, clientId, evaluated)
    IN /\ callbacks[i].pc = "submit-weights"
       /\ served' = IF code = 200 /\ clientId = registration
                    THEN [served EXCEPT !.hasSubmitted = TRUE,
                                        !.clientStatus = "aggregating"]
                    ELSE served
       /\ submitRequests' =
              IF served.inProgress
              THEN [submitRequests EXCEPT ![served.roundId] =
                        IF @ < MaxCallbacks THEN @ + 1 ELSE @]
              ELSE submitRequests
       /\ callbacks' = RemoveAt(callbacks, i)
       /\ isTraining' = FALSE
       /\ IF code = 200
          THEN /\ pollingInterval' = startPolling(pollingInterval, intervals)[1]
               /\ intervals' = startPolling(pollingInterval, intervals)[2]
          ELSE /\ pollingInterval' = pollingAfterCatch(pollingInterval, intervals)[1]
               /\ intervals' = pollingAfterCatch(pollingInterval, intervals)[2]
       /\ UNCHANGED <<isRegistered, fcFrame>>

disconnect ==
    /\ intervals' = IF pollingInterval # Null
                    THEN clearInterval(intervals, pollingInterval) ELSE intervals
    /\ pollingInterval' = Null
    /\ isRegistered' = FALSE
    /\ isTraining' = FALSE
    /\ UNCHANGED <<callbacks, served, submitRequests, fcFrame>>

\* the server starts a round: every registered client is set to training
ServerStartsRound ==
    /\ ~served.inProgress
    /\ served.roundId < MaxClientRounds
    /\ served' = [roundId |-> served.roundId + 1, inProgress |-> TRUE,
                  clientStatus |-> "training", hasSubmitted |-> FALSE]
    /\ UNCHANGED <<isRegistered, isTraining, pollingInterval, intervals, callbacks,
                   submitRequests, fcFrame>>

\* the server aggregates the round: currentRound is null and every client idle
ServerCompletesRound ==
    /\ served.inProgress
    /\ served' = [served EXCEPT !.inProgress = FALSE, !.clientStatus = "idle",
                                !.hasSubmitted = FALSE]
    /\ UNCHANGED <<isRegistered, isTraining, pollingInterval, intervals, callbacks,
                   submitRequests, fcFrame>>

ClientNext ==
    \/ register
    \/ \E ok \in BOOLEAN : PollingCallback(ok)
    \/ \E i \in DOMAIN callbacks : PollingCallbackResumes(i)
    \/ \E i \in DOMAIN callbacks, ok \in BOOLEAN : participateInTraining(i, ok)
    \/ \E i \in DOMAIN callbacks, evaluated \in BOOLEAN : SubmitWeightsAnswered(i, evaluated)
    \/ disconnect
    \/ ServerStartsRound
    \/ ServerCompletesRound

\* the client after its constructor, the server before its first round
FederatedClientNew ==
    /\ isRegistered = FALSE
    /\ isTraining = FALSE
    /\ pollingInterval = Null
    /\ intervals = {}
    /\ callbacks = <<>>
    /\ registration = 0
    /\ served = [roundId |-> 0, inProgress |-> FALSE, clientStatus |-> "idle",
                 hasSubmitted |-> FALSE]
    /\ submitRequests = [n \in 1..MaxClientRounds |-> 0]

(***************************************************************************)
(* The simulation driver (puppeteer/js_fl_simulation.js) polls GET         *)
(* /progress until it decides that the run is over.                        *)
(***************************************************************************)
\* GET /progress
progress(roundNumber, total, registry) ==
    [rounds |-> [current |-> roundNumber, total |-> total],
     clients |-> [current |-> Size(registry)]]

\* one turn of the loop of waitForFLCompletion: fetched is FALSE when
\* checkFLProgress returns null, timeUp when MAX_WAIT_TIME_MS has passed
waitForFLCompletion(fetched, timeUp) ==
    LET p == progress(currentRoundNumber, TOTAL_ROUNDS, clients)
    IN /\ completion = None
       /\ completion' =
              IF timeUp THEN Some(FALSE)
              ELSE IF ~fetched THEN None
              ELSE IF p.rounds.current >= p.rounds.total THEN Some(TRUE)
              ELSE IF p.clients.current = 0 THEN Some(FALSE)
              ELSE None
       /\ UNCHANGED <<orchVars, avgIn, avgNum, avgOut, selected, fcVars>>

AvgIdle ==
    /\ avgIn = <<>> /\ avgNum = <<>> /\ avgOut = NullObj /\ selected = None
    /\ FederatedClientNew
    /\ completion = None

(***************************************************************************)
(* Specifications.                                                         *)
(***************************************************************************)
InitWith(cfg) ==
    /\ clients = EmptyMap
    /\ rounds = <<>>
    /\ currentRound = NullObj
    /\ globalModel = NullObj
    /\ currentRoundNumber = 0
    /\ isAggregating = FALSE
    /\ roundDeadline = Null
    /\ roundStartTime = Null
    /\ serverConfig = cfg
    /\ REQUIRED_CLIENTS = cfg.requiredClients
    /\ TOTAL_ROUNDS = cfg.totalRounds
    /\ clientTimingMetrics = EmptyMap
    /\ roundMeanTimes = EmptyMap
    /\ overallMeanTime = 0
    /\ clientMetrics = <<>>
    /\ previousRoundMetrics = EmptyMap
    /\ timers = NoTimers
    /\ pendingSubmits = EmptyBag
    /\ nextId = 1
    /\ lastRegistration = Null
    /\ faults = 0

\* The configuration the server starts with.
DefaultConfig ==
    [totalRounds |-> MaxRounds, requiredClients |-> 2, aggregationInterval |-> 1000,
     synchronousRounds |-> 1]

NewConfigs ==
    {[totalRounds |-> Null, requiredClients |-> 0, aggregationInterval |-> Null,
      synchronousRounds |-> Null],
     [totalRounds |-> Null, requiredClients |-> Null, aggregationInterval |-> Null,
      synchronousRounds |-> 0],
     [totalRounds |-> Null, requiredClients |-> Null, aggregationInterval |-> Null,
      synchronousRounds |-> MaxRounds],
     [totalRounds |-> 1, requiredClients |-> Null, aggregationInterval |-> Null,
      synchronousRounds |-> Null],
     [totalRounds |-> Null, requiredClients |-> MaxIds, aggregationInterval |-> Null,
      synchronousRounds |-> Null]}

Init == AvgIdle /\ InitWith(DefaultConfig)

\* what can happen while initializeModel succeeds
Handlers ==
    \/ Register(TRUE)
    \/ \E c \in Ids : RoundStatus(c, TRUE)
    \/ \E c \in Ids : DeleteClient(c)
    \/ \E nc \in NewConfigs : PostConfig(nc)
    \/ \E c \in Ids, nd \in NumDataVals, t \in TimeVals : \E w \in UpdatesOf(c) :
           SubmitWeights(c, w, nd, t)
    \/ \E p \in BagToSet(pendingSubmits) : \E loss \in LossesOf(p.clientId) :
           SubmitWeightsResume(p, loss)
    \/ \E tag \in 1..MaxRoundNo : DeadlineTimer(tag)
    \/ \E tag \in 1..MaxRoundNo : SettleTimer(tag, TRUE)
    \/ Tick

\* a call of startNewRound in which initializeModel throws
StartFails ==
    \/ Register(FALSE)
    \/ \E c \in Ids : RoundStatus(c, FALSE)
    \/ \E tag \in 1..MaxRoundNo : SettleTimer(tag, FALSE)

Next ==
    \/ Handlers
    \/ StartFails

Spec == Init /\ [][Next]_vars

\* What a DeadlineTimer step does to the timer list: a due deadline callback
\* leaves it, and the aggregation may arm the settle callback.  DeadlineTimer
\* is enabled whenever a deadline callback is due and no other action takes a
\* deadline callback off the list, so fairness of this action is fairness of
\* DeadlineTimer.
DeadlineCallbackRuns ==
    \E tag \in 1..MaxRoundNo :
        /\ TimerDue("deadline", tag)
        /\ timers' \in {TimerTaken("deadline", tag),
                        setTimeout(TimerTaken("deadline", tag), "settle", SettleDelay,
                                   currentRoundNumber)}

\* The event loop runs every callback that is due and the clock does not
\* stop; initializeModel does not throw.  Requests are under no obligation to
\* arrive.
LiveSpec ==
    /\ Init
    /\ [][Handlers]_vars
    /\ WF_vars(Tick)
    /\ WF_timers(DeadlineCallbackRuns)
    /\ WF_vars(\E tag \in 1..MaxRoundNo : SettleTimer(tag, TRUE))

AvgInit == AvgIdle /\ InitWith(DefaultConfig)

AvgNext ==
    \/ \E w \in AvgUpdates, nd \in AvgNumData : AvgAdd(w, nd)
    \/ AvgRun

AvgSpec == AvgInit /\ [][AvgNext]_vars

\* The server with submissions whose times put the overall mean time below,
\* inside and above the range of the deadline, and with the configuration
\* that makes every round asynchronous.
DeadlineTimesOf(c) == IF c = 1 THEN {0, 8, 80, 180} ELSE {0}

AllAsynchronous ==
    [totalRounds |-> Null, requiredClients |-> Null, aggregationInterval |-> Null,
     synchronousRounds |-> 0]

DeadlineNext ==
    \/ Register(TRUE)
    \/ PostConfig(AllAsynchronous)
    \/ \E c \in Ids, nd \in NumDataVals : \E t \in DeadlineTimesOf(c) :
           SubmitWeights(c, OneUpdate, nd, t)
    \/ \E p \in BagToSet(pendingSubmits) : \E loss \in LossesOf(p.clientId) \cap LossVals :
           SubmitWeightsResume(p, loss)
    \/ \E tag \in 1..MaxRoundNo : DeadlineTimer(tag)
    \/ \E tag \in 1..MaxRoundNo : SettleTimer(tag, TRUE)
    \/ Tick

DeadlineSpec == Init /\ [][DeadlineNext]_vars

\* `parseInt(value) || d`: d for 0 and for a value that is no number
ParseIntOr(value, d) == IF value = NotANumber \/ value = 0 THEN d ELSE value

\* parseArgs; a field of flags is Null when the command line leaves it out.
parseArgs(flags) ==
    [totalRounds |-> IF flags.totalRounds = Null THEN 10
                     ELSE ParseIntOr(flags.totalRounds, 10),
     requiredClients |-> IF flags.requiredClients = Null THEN 5
                         ELSE ParseIntOr(flags.requiredClients, 5),
     aggregationInterval |-> IF flags.aggregationInterval = Null THEN 1000
                             ELSE ParseIntOr(flags.aggregationInterval, 1000),
     synchronousRounds |-> IF flags.synchronousRounds = Null THEN 1
                           ELSE ParseIntOr(flags.synchronousRounds, 3)]

\* The configuration on its own: the server is started with some flags and
\* receives a POST /config.
StartupFlags ==
    [totalRounds : {Null, 0, 3, 0 - 5}, requiredClients : {Null, 2, 0 - 5},
     aggregationInterval : {Null, 50, 200, NotANumber}, synchronousRounds : {Null, 2}]

ConfigBodies ==
    [totalRounds : {Null, 0, 3, NotANumber}, requiredClients : {Null, 0, 4},
     aggregationInterval : {Null, 99, 100}, synchronousRounds : {Null}]

ConfigInit == AvgIdle /\ \E flags \in StartupFlags : InitWith(parseArgs(flags))

ConfigNext == \E nc \in ConfigBodies : PostConfig(nc)

ConfigSpec == ConfigInit /\ [][ConfigNext]_vars

\* The quality table on its own: updates are evaluated, the table is cleared
\* and getSelectedClients is called.
selFrame == <<clients, rounds, currentRound, globalModel, currentRoundNumber,
              isAggregating, roundDeadline, roundStartTime, cfgVars, timingVars,
              timers, pendingSubmits, idVars, faults, avgIn, avgNum,
              avgOut, fcVars, completion>>

SelEvaluate(clientId, loss, numData) ==
    /\ clientMetrics' = evaluateModel(clientMetrics, previousRoundMetrics, clientId,
                                      loss, numData)[1]
    /\ previousRoundMetrics' = evaluateModel(clientMetrics, previousRoundMetrics,
                                             clientId, loss, numData)[2]
    /\ selected' = None
    /\ UNCHANGED selFrame

\* clearMetrics
SelClear ==
    /\ clientMetrics # <<>>
    /\ clientMetrics' = clearMetrics(clientMetrics, previousRoundMetrics)[1]
    /\ previousRoundMetrics' = clearMetrics(clientMetrics, previousRoundMetrics)[2]
    /\ selected' = None
    /\ UNCHANGED selFrame

SelRun ==
    /\ selected = None
    /\ selected' = Some(getSelectedClients(clientMetrics))
    /\ UNCHANGED <<qualityVars, selFrame>>

SelectNext ==
    \/ \E c \in Ids, loss \in LossVals \cup {LossNaN}, nd \in NumDataVals :
           SelEvaluate(c, loss, nd)
    \/ SelClear
    \/ SelRun

SelectSpec == Init /\ [][SelectNext]_vars

\* the browser client against a server that starts and completes rounds
ClientSpec == Init /\ [][ClientNext]_vars

\* the server, left undisturbed, with the simulation driver watching it
SimNext ==
    \/ Register(TRUE)
    \/ \E c \in Ids : RoundStatus(c, TRUE)
    \/ \E c \in Ids, nd \in NumDataVals, t \in TimeVals : \E w \in UpdatesOf(c) :
           SubmitWeights(c, w, nd, t)
    \/ \E p \in BagToSet(pendingSubmits) : \E loss \in LossesOf(p.clientId) \cap LossVals :
           SubmitWeightsResume(p, loss)
    \/ \E tag \in 1..MaxRoundNo : DeadlineTimer(tag)
    \/ \E tag \in 1..MaxRoundNo : SettleTimer(tag, TRUE)
    \/ Tick
    \/ \E fetched \in BOOLEAN, timeUp \in BOOLEAN : waitForFLCompletion(fetched, timeUp)

SimSpec == Init /\ [][SimNext]_vars

(***************************************************************************)
(* The claims.  A step archives a round when `rounds` grows; the round it   *)
(* archives is the last one of rounds'.                                     *)
(***************************************************************************)
Archives == Len(rounds') = Len(rounds) + 1

Archived == rounds'[Len(rounds')]

\* every update stored in `round`, in the order of the client ids
AllSubmitters(round) ==
    LET ids == SetToSeq(DOMAIN round.clients)
    IN [n \in 1..Len(ids) |-> [id |-> ids[n], w |-> round.clients[ids[n]]]]

\* C1: a synchronous round (round number <= synchronousRounds) is aggregated
\* only when every registered client has an entry in its submissions map.
C1_SyncWaitsForAll ==
    [][(Archives /\ shouldUseSynchronousMode(currentRoundNumber))
         => DOMAIN clients' \subseteq DOMAIN Archived.clients]_vars

\* C2: an asynchronous round is aggregated only when every registered client
\* has submitted or the round's own deadline has passed.
C2_AsyncWaitsForAllOrDeadline ==
    [][(Archives /\ ~shouldUseSynchronousMode(currentRoundNumber))
         => (DOMAIN clients' \subseteq DOMAIN Archived.clients \/ hasDeadlinePassed)]_vars

\* C3: when the deadline timer of the round in progress fires, that round is
\* aggregated and archived as completed with whatever has been submitted.
C3_DeadlineCompletesRound ==
    [][\A t \in 1..MaxRoundNo :
         (/\ <<"deadline", 0, t>> \in timers
          /\ <<"deadline", 0, t>> \notin timers'
          /\ currentRound # NullObj
          /\ currentRound.roundId = t)
         => (/\ Archives
             /\ Archived.roundId = t
             /\ Archived.status = "completed"
             /\ Archived.clients = currentRound.clients)]_vars

\* C4: a submit-weights request of a client is accepted (its update written
\* and answered 200) only if the round holds no update of that client yet, so
\* of two requests of one client in one round at most one is accepted.
C4_AtMostOneAccepted ==
    [][\A p \in BagToSet(pendingSubmits) :
         (/\ pendingSubmits' = pendingSubmits (-) SetToBag({p})
          /\ currentRound # NullObj
          /\ currentRound.roundId = p.round)
         => p.clientId \notin DOMAIN currentRound.clients]_vars

\* C5: a new Round object is never created while another Round is still
\* in progress.
C5_NoRoundWhileInProgress ==
    [][(currentRound # NullObj /\ currentRound' # NullObj)
         => currentRound'.roundId = currentRound.roundId]_vars

\* round 1 is in progress and a registration has filled the registry again
\* after a removal: startNewRound was called during the round and the round
\* is still the current one, the new client idle
C5_Witness ==
    /\ currentRound # NullObj
    /\ currentRound.roundId = 1
    /\ Size(clients) = REQUIRED_CLIENTS
    /\ nextId = REQUIRED_CLIENTS + 2
    /\ \E c \in DOMAIN clients : c = nextId - 1 /\ clients[c] = "idle"

\* C6: the current round never holds more submissions than there are
\* registered clients.
C6_SubmissionsAtMostClients ==
    currentRound # NullObj => Size(currentRound.clients) <= Size(clients)

\* C7: when the selection is empty for a round with at least one submission,
\* the new global model is the average over every update stored in the round.
C7_EmptySelectionFallsBack ==
    [][(/\ Archives
        /\ Size(Archived.clients) > 0
        /\ getSelectedClients(clientMetrics') = <<>>)
         => globalModel' = federatedAveragingAll(AllSubmitters(Archived))]_vars

\* round n has just completed: it is the last round of the archive, no later
\* round has started and the callback armed at its completion is pending
RoundDone(n) ==
    /\ currentRound = NullObj
    /\ currentRoundNumber = n
    /\ rounds # <<>>
    /\ rounds[Len(rounds)].roundId = n
    /\ rounds[Len(rounds)].status = "completed"
    /\ \E k \in timers : k[1] = "settle" /\ k[3] = n

RoundStarted(n) == currentRound # NullObj /\ currentRound.roundId = n

\* C8: once round n has completed with n < totalRounds and at least
\* requiredClients clients registered, round n + 1 eventually starts with no
\* further request, unless a removal or a new configuration ends one of the
\* two conditions first.
C8_NextRoundStarts ==
    \A n \in 1..MaxRounds :
        (RoundDone(n) /\ n < TOTAL_ROUNDS /\ Size(clients) >= REQUIRED_CLIENTS)
            ~> (RoundStarted(n + 1) \/ n >= TOTAL_ROUNDS
                \/ Size(clients) < REQUIRED_CLIENTS)

\* both clients submitted in round 1, which is in the archive, the callback
\* armed at its completion has run, and round 2 is in progress
C8_Witness ==
    /\ Len(rounds) = 1
    /\ rounds[1].roundId = 1
    /\ Size(rounds[1].clients) = 2
    /\ RoundStarted(2)
    /\ timers = {<<"deadline", deadlineMs, 2>>}
    /\ faults = 0

(***************************************************************************)
(* The claims about the averaging, on AvgSpec.                             *)
(***************************************************************************)
\* every update has the layers, tensor counts and data lengths of the first
SameShape(cw) ==
    \A n \in 1..Len(cw) :
        /\ DOMAIN cw[n].w = DOMAIN cw[1].w
        /\ \A l \in DOMAIN cw[1].w :
              /\ Len(cw[n].w[l]) = Len(cw[1].w[l])
              /\ \A i \in 1..Len(cw[1].w[l]) :
                    Len(cw[n].w[l][i].data) = Len(cw[1].w[l][i].data)

\* the model has the layers, tensor counts, data lengths and shapes of w
SameLayout(model, w) ==
    /\ DOMAIN model = DOMAIN w
    /\ \A l \in DOMAIN w :
          /\ Len(model[l]) = Len(w[l])
          /\ \A i \in 1..Len(w[l]) :
                /\ Len(model[l][i].data) = Len(w[l][i].data)
                /\ model[l][i].shape = w[l][i].shape

\* the integer x * 2^(-E) of a float x whose exponent is at least E
Scaled(x, E) == x[1] * Pow2(x[2] - E)

\* r is the mean of the floats xs up to the rounding of Len(xs) divisions and
\* additions: |k r - sum xs| (2^MantBits - (k + 1)) <= (k + 1) sum |xs|
MeanWithinRounding(r, xs) ==
    LET k == Len(xs)
        exps == {r[2], 0} \cup {xs[n][2] : n \in 1..k}
        E == CHOOSE e \in exps : \A f \in exps : e <= f
        X == [n \in 1..k |-> Scaled(xs[n], E)]
    IN /\ r # NaN
       /\ r # Undefined
       /\ Abs(k * Scaled(r, E) - SumTo(X, k)) * (Pow2(MantBits) - (k + 1))
              <= (k + 1) * SumTo([n \in 1..k |-> Abs(X[n])], k)

\* the values of the updates cw at slot j of tensor i of layer l
Column(cw, l, i, j) == [n \in 1..Len(cw) |-> cw[n].w[l][i].data[j]]

\* C9: for updates of one shape the result has, at every layer and tensor
\* position, the unweighted mean of the updates' values (up to the rounding
\* of the floating-point operations), whatever the clients' numData are.
C9_UnweightedMean ==
    (avgOut # NullObj /\ avgIn # <<>> /\ SameShape(avgIn))
        => /\ SameLayout(avgOut, avgIn[1].w)
           /\ \A l \in DOMAIN avgOut : \A i \in 1..Len(avgOut[l]) :
                 \A j \in 1..Len(avgOut[l][i].data) :
                     MeanWithinRounding(avgOut[l][i].data[j], Column(avgIn, l, i, j))

\* three updates of one shape with different values and different numData
\* have been averaged
C9_Witness ==
    /\ avgOut # NullObj
    /\ Len(avgIn) = MaxK
    /\ SameShape(avgIn)
    /\ \E n \in 1..Len(avgIn) : avgIn[n].w # avgIn[1].w
    /\ \E n \in 1..Len(avgNum) : avgNum[n] # avgNum[1]

\* the input is k >= 1 copies of one update
Copies(cw) == cw # <<>> /\ \A n \in 1..Len(cw) : cw[n].w = cw[1].w

SelectedOf(round, metrics) ==
    SelectWeights(getSelectedClients(metrics), round.clients,
                  Len(getSelectedClients(metrics)))

\* C11: an aggregation over an empty mapping of updates fails and does not
\* replace the global model.
C11_EmptySetKeepsModel ==
    [][(Archives /\ SelectedOf(Archived, clientMetrics') = <<>>)
         => globalModel' = globalModel]_vars

\* C12: an aggregation over updates that do not all have the shape of the
\* first one fails and the global model keeps its previous value.
C12_MismatchKeepsModel ==
    [][(Archives /\ ~SameShape(SelectedOf(Archived, clientMetrics')))
         => globalModel' = globalModel]_vars

(***************************************************************************)
(* The claims about the end of a round.                                    *)
(***************************************************************************)
\* C13: once a round has been aggregated and while no round is in progress,
\* every registered client has status idle.
C13_IdleBetweenRounds ==
    (rounds # <<>> /\ currentRound = NullObj)
        => \A c \in DOMAIN clients : clients[c] = "idle"

\* C14: the archive changes only by one round being appended, that round is
\* the round in progress and is not in the archive yet, the global model
\* becomes that round's aggregate, and the global model changes in no other
\* step: a round is archived, and the global model replaced for it, at most
\* once.
C14_AggregatedOnce ==
    [][/\ rounds' # rounds
            => /\ Archives
               /\ SubSeq(rounds', 1, Len(rounds)) = rounds
               /\ currentRound # NullObj
               /\ Archived.roundId = currentRound.roundId
               /\ \A i \in 1..Len(rounds) : rounds[i].roundId # Archived.roundId
               /\ globalModel' = Archived.aggregated
       /\ globalModel' # globalModel => Archives]_vars

\* a round is in the archive, no round is in progress, and a submission
\* handler that was suspended when the round was archived has run on (it left
\* its client in status aggregating)
C14_Witness ==
    /\ rounds # <<>>
    /\ currentRound = NullObj
    /\ \E c \in DOMAIN clients : clients[c] = "aggregating"

\* C15: whenever no aggregation is executing, that is in every state between
\* two handlers, isAggregating is false.
C15_GuardReleased == isAggregating = FALSE

\* every registered client has submitted in the round in progress, no
\* submission is suspended and the selected updates make the averaging throw:
\* the aggregation started by the last submission has thrown
C15_Witness ==
    /\ currentRound # NullObj
    /\ Size(clients) = MaxIds
    /\ DOMAIN currentRound.clients = DOMAIN clients
    /\ pendingSubmits = EmptyBag
    /\ federatedAveragingAll(SelectedOf(currentRound, clientMetrics)) = TypeError
    /\ isAggregating = FALSE

(***************************************************************************)
(* The claims about registration.                                          *)
(***************************************************************************)
\* C16: a registration leaves the registry unchanged (400) exactly when the
\* client count is at least requiredClients; otherwise the registry gains
\* exactly one client, which is new and is stored idle: the registry is the
\* old one with the new idle client, unless the registration has started a
\* round, whose start puts every client of that registry in training.
C16_RegisterCapacity ==
    [][(\E ok \in BOOLEAN : Register(ok))
         => IF Size(clients) >= REQUIRED_CLIENTS
            THEN clients' = clients
            ELSE \E id \in Ids :
                    /\ id \notin DOMAIN clients
                    /\ Size(clients') = Size(clients) + 1
                    /\ IF currentRound = NullObj /\ currentRound' # NullObj
                       THEN clients' = [c \in DOMAIN MapSet(clients, id, "idle") |->
                                          "training"]
                       ELSE clients' = MapSet(clients, id, "idle")]_vars

\* a registration brings the client count to requiredClients and no round
\* has run yet
RegistryJustFilled ==
    /\ Register(TRUE)
    /\ Size(clients) < REQUIRED_CLIENTS
    /\ Size(clients') = REQUIRED_CLIENTS
    /\ currentRoundNumber = 0
    /\ currentRound = NullObj

\* C17: when a registration brings the client count to requiredClients and
\* no round has run yet, round 1 is in progress with every registered client
\* in status training as soon as the registration has been handled.
C17_FirstRoundStarts ==
    [][RegistryJustFilled
         => /\ currentRound' # NullObj
            /\ currentRound'.roundId = 1
            /\ currentRound'.status = "in_progress"
            /\ \A c \in DOMAIN clients' : clients'[c] = "training"]_vars

\* round 1 is in progress, nothing is archived, and the requiredClients
\* registered clients are all in status training
C17_Witness ==
    /\ RoundStarted(1)
    /\ rounds = <<>>
    /\ Size(clients) = REQUIRED_CLIENTS
    /\ \A c \in DOMAIN clients : clients[c] = "training"

(***************************************************************************)
(* The claims about what the read-only routes report.                      *)
(***************************************************************************)
\* C18: GET /global-model answers 404 exactly in the states in which the
\* archive of completed rounds is empty.
C18_NotFoundIffNoRound == (GetGlobalModel.status = 404) <=> (rounds = <<>>)

\* a round has completed with a model without layers, which GET /global-model
\* returns
C18_Witness ==
    /\ rounds # <<>>
    /\ globalModel = rounds[Len(rounds)].aggregated
    /\ DOMAIN globalModel = {}
    /\ GetGlobalModel.status = 200

\* the mode the round in progress was started in: startNewRound gives a
\* deadline to asynchronous rounds and to no others
ModeAtStart == IF roundDeadline = Null THEN "synchronous" ELSE "asynchronous"

\* C19: while a round is in progress, the mode that /round-status reports and
\* that shouldStartAggregation uses is the mode the round was started in.
C19_ModeFixed == currentRound # NullObj => ReportedMode = ModeAtStart

(***************************************************************************)
(* The claim about the duration of an asynchronous round, on DeadlineSpec.  *)
(***************************************************************************)
\* a step creates a Round
RoundStarts ==
    /\ currentRound' # NullObj
    /\ currentRound = NullObj \/ currentRound'.roundId # currentRound.roundId

\* clamp(10 s, 60 s, m), with 30 s when there is no mean time
Clamped(m) ==
    IF m = 0 THEN DefaultDeadline
    ELSE IF m < MinDeadline THEN MinDeadline
    ELSE IF m > MaxDeadline THEN MaxDeadline
    ELSE m

LastRoundDone ==
    /\ currentRoundNumber = TOTAL_ROUNDS
    /\ \E n \in 1..Len(rounds) : rounds[n].roundId = currentRoundNumber
    /\ currentRound = NullObj
    /\ ~isAggregating

\* C21: once roundNumber equals totalRounds and that round is aggregated no
\* step starts a further round, roundNumber never exceeds totalRounds and the
\* archive never holds more than totalRounds rounds.
C21_TerminalAfterLastRound ==
    [][/\ currentRoundNumber' <= TOTAL_ROUNDS'
       /\ Len(rounds') <= TOTAL_ROUNDS'
       /\ (LastRoundDone /\ TOTAL_ROUNDS' = TOTAL_ROUNDS) => ~RoundStarts]_vars

\* C22: DELETE /clients/:clientId changes the registry only: with an unknown
\* id it changes nothing, and the entry of a removed client stays in the
\* submissions of the round in progress; the aggregation of a round takes the
\* selected updates from the round's submissions, whoever is registered.
C22_RemoveChangesRegistryOnly ==
    [][/\ \A c \in Ids :
            DeleteClient(c)
              => /\ UNCHANGED <<roundVars, cfgVars, timingVars, qualityVars, timers,
                                pendingSubmits, idVars>>
                 /\ clients' = IF c \in DOMAIN clients THEN MapDelete(clients, c)
                               ELSE clients
       /\ Archives
            => Archived.aggregated
                 = federatedAveragingAll(SelectedOf(Archived, clientMetrics'))]_vars

\* a client that submitted in the round in progress has been removed
C22_Witness ==
    /\ currentRound # NullObj
    /\ \E c \in DOMAIN currentRound.clients : c \notin DOMAIN clients

\* `v >= min` of JavaScript: false when v is not a number
AtLeast(v, min) == v # NotANumber /\ v >= min

\* the body has a field below its minimum
BelowMinimum(nc) ==
    \/ (nc.totalRounds # Null /\ Below(nc.totalRounds, 1))
    \/ (nc.requiredClients # Null /\ Below(nc.requiredClients, 1))
    \/ (nc.aggregationInterval # Null /\ Below(nc.aggregationInterval, MinAggregationInterval))

\* C23: a POST /config with totalRounds < 1, requiredClients < 1 or
\* aggregationInterval < 100 leaves serverConfig, REQUIRED_CLIENTS and
\* TOTAL_ROUNDS unchanged, and after every POST /config the stored
\* configuration has totalRounds >= 1, requiredClients >= 1 and
\* aggregationInterval >= 100.
C23_ConfigAboveMinimums ==
    [][\A nc \in ConfigBodies :
         PostConfig(nc)
           => /\ BelowMinimum(nc) => UNCHANGED cfgVars
              /\ AtLeast(serverConfig'.totalRounds, 1)
              /\ AtLeast(serverConfig'.requiredClients, 1)
              /\ AtLeast(serverConfig'.aggregationInterval, MinAggregationInterval)
              /\ AtLeast(TOTAL_ROUNDS', 1)
              /\ AtLeast(REQUIRED_CLIENTS', 1)]_vars

(***************************************************************************)
(* The claims about the quality table, on SelectSpec.                      *)
(***************************************************************************)
\* the recorded qualities, in the order of the table
Qualities(metrics) == [n \in 1..Len(metrics) |-> metrics[n].quality]

\* the ids of the entries of the table that pass Test, in the order of the table
Passing(metrics, Test(_)) ==
    LET sub == SelectSeq(metrics, Test)
    IN [n \in 1..Len(sub) |-> sub[n].clientId]

\* the quality of m is above the arithmetic mean of the recorded qualities:
\* k q > sum of the qualities, in exact arithmetic
AboveArithmeticMean(metrics, m) ==
    LET k == Len(metrics)
        exps == {0} \cup {metrics[n].quality[2] : n \in 1..k}
        E == CHOOSE e \in exps : \A f \in exps : e <= f
    IN k * Scaled(m.quality, E)
         > SumTo([n \in 1..k |-> Scaled(metrics[n].quality, E)], k)

\* the quality of m is above the float r
AboveFloat(m, r) ==
    LET E == IF m.quality[2] < r[2] THEN m.quality[2] ELSE r[2]
    IN Scaled(m.quality, E) > Scaled(r, E)

EvaluationReturns == pendingSubmits' # pendingSubmits

\* C25: a round start empties the quality table and leaves every client's
\* previous loss as it was; an aggregation leaves the previous losses as
\* they were; no step discards a previous loss, and a previous loss changes
\* only in the step in which an evaluation of a submission returns.
C25_PreviousLossKept ==
    [][/\ RoundStarts => /\ clientMetrics' = <<>>
                         /\ previousRoundMetrics' = previousRoundMetrics
       /\ (Archives /\ ~EvaluationReturns) => previousRoundMetrics' = previousRoundMetrics
       /\ DOMAIN previousRoundMetrics \subseteq DOMAIN previousRoundMetrics'
       /\ previousRoundMetrics' # previousRoundMetrics => EvaluationReturns]_vars

\* round 2 has started with an empty quality table and holds the losses that
\* both clients reported in round 1
C25_Witness ==
    /\ currentRound # NullObj
    /\ currentRound.roundId = 2
    /\ clientMetrics = <<>>
    /\ rounds # <<>>
    /\ DOMAIN previousRoundMetrics = {1, 2}

(***************************************************************************)
(* The claim about a loss that is not a finite number, on Spec.            *)
(***************************************************************************)
NonFiniteLosses == {LossNaN, Infinity}

\* the update of the submission p is in the submissions of the round in
\* progress, or of the round this step archives
SubmissionStored(p) ==
    LET r == IF Archives THEN Archived ELSE currentRound'
    IN /\ r # NullObj
       /\ p.clientId \in DOMAIN r.clients
       /\ r.clients[p.clientId] = p.weights

\* C26: when the evaluation of a submitted update yields a loss that is not
\* a finite number, evaluateModel returns the neutral quality 0.5, the update
\* is stored in the submissions of the round and the response is 200.
C26_NonFiniteLossAccepted ==
    [][\A p \in BagToSet(pendingSubmits) : \A loss \in NonFiniteLosses :
         SubmitWeightsResume(p, loss)
             => /\ evaluateModel(clientMetrics, previousRoundMetrics, p.clientId,
                                 loss, p.numData)[3] = Quality(NeutralQuality)
                /\ SubmitWeightsStatus(currentRound) = 200
                /\ SubmissionStored(p)]_vars

(***************************************************************************)
(* The claim about a round start whose setup fails, on Spec.               *)
(***************************************************************************)
\* C27: when initializeModel throws in a call of startNewRound, afterwards
\* there is no round in progress, the round number is the one before the
\* call, no deadline and no start time is set, no aggregation is marked as
\* running, no client was switched to training, and the guard of
\* startNewRound still passes, so that a later call starts the round.
C27_FailedStartRollsBack ==
    [][StartFails
         => /\ currentRound' = NullObj
            /\ currentRoundNumber' = currentRoundNumber
            /\ roundDeadline' = Null
            /\ roundStartTime' = Null
            /\ ~isAggregating'
            /\ timers' \subseteq timers
            /\ \A c \in DOMAIN clients' :
                  clients'[c] = "training" => (c \in DOMAIN clients /\ clients[c] = "training")
            /\ startNewRoundProceeds(currentRound, clients)']_vars

\* the registry was filled and the start of round 1 failed: every client is
\* registered and idle and there is no round
C27_Witness ==
    /\ faults = 1
    /\ serverConfig = DefaultConfig
    /\ Size(clients) = REQUIRED_CLIENTS
    /\ nextId = REQUIRED_CLIENTS + 1
    /\ currentRound = NullObj
    /\ currentRoundNumber = 0
    /\ \A c \in DOMAIN clients : clients[c] = "idle"

(***************************************************************************)
(* The claim about an aggregation that throws, on LiveSpec.                *)
(***************************************************************************)
\* performAggregation stored the mean time of round n and round n is still
\* in progress: the aggregation of round n was attempted and threw
FailedAggregation(n) ==
    /\ currentRound # NullObj
    /\ currentRound.roundId = n
    /\ n \in DOMAIN roundMeanTimes

\* C28: after an aggregation of round n threw, round n is eventually no
\* longer the round in progress: it is completed or abandoned.
C28_FailedAggregationRecovers ==
    \A n \in 1..MaxRounds : FailedAggregation(n) ~> ~RoundStarted(n)

(***************************************************************************)
(* The claim about a deadline callback that fires late, on Spec.           *)
(***************************************************************************)
\* round t is in the archive
Aggregated(t) == \E n \in 1..Len(rounds) : rounds[n].roundId = t

\* C29: the deadline callback armed by round t that runs when round t is
\* already aggregated changes nothing: the round in progress, the archive,
\* the global model, the registry, the guard, the deadline and the start
\* time stay as they are.
C29_LateDeadlineNoOp ==
    [][\A t \in 1..MaxRoundNo :
         (DeadlineTimer(t) /\ Aggregated(t))
             => UNCHANGED <<currentRound, rounds, globalModel, clients, isAggregating,
                            roundDeadline, roundStartTime, roundMeanTimes,
                            overallMeanTime>>]_vars

(***************************************************************************)
(* The claim about the conditions of a round start, on Spec.               *)
(***************************************************************************)
\* C30: a step that creates a Round finds at least requiredClients clients
\* registered, the round number below totalRounds and no aggregation
\* running; it raises the round number by one and gives the round that
\* number; the archived rounds have the roundIds 1, 2, 3, ... in this order.
C30_StartConditions ==
    [][/\ RoundStarts
          => /\ Size(clients') >= REQUIRED_CLIENTS
             /\ currentRoundNumber < TOTAL_ROUNDS
             /\ ~isAggregating
             /\ currentRoundNumber' = currentRoundNumber + 1
             /\ currentRound'.roundId = currentRoundNumber'
       /\ ~RoundStarts => currentRoundNumber' = currentRoundNumber
       /\ \A n \in 1..Len(rounds') : rounds'[n].roundId = n]_vars

\* rounds 1 and 2 were started and aggregated
C30_Witness ==
    /\ Len(rounds) = 2
    /\ rounds[1].roundId = 1
    /\ rounds[2].roundId = 2
    /\ currentRoundNumber = 2
    /\ currentRound = NullObj

(***************************************************************************)
(* The claim about the ids of the clients, on Spec.                        *)
(***************************************************************************)
\* C31: a registration that is accepted generates an id that no registered
\* client has, so the registry gains one client and no entry is overwritten.
C31_FreshId ==
    [][((\E ok \in BOOLEAN : Register(ok)) /\ Size(clients) < REQUIRED_CLIENTS)
         => /\ lastRegistration' \notin DOMAIN clients
            /\ Size(clients') = Size(clients) + 1]_vars

(***************************************************************************)
(* The claim about the timing histories, on Spec.                          *)
(***************************************************************************)
\* the clients whose timing history has an entry at the position of round n
TimedIn(n) == {c \in DOMAIN clientTimingMetrics : Len(clientTimingMetrics[c]) >= n}

\* C32: when round n is aggregated, the clients whose timing history has an
\* entry at the position of round n are exactly the clients that submitted
\* in round n, and the mean time of round n is stored exactly when there is
\* such a client.
C32_MeanOverSubmitters ==
    [][Archives
         => /\ TimedIn(Archived.roundId) = DOMAIN Archived.clients
            /\ Archived.roundId \in DOMAIN roundMeanTimes'
                   <=> DOMAIN Archived.clients # {}]_vars

(***************************************************************************)
(* The claim about the loss a quality is computed from, on SelectSpec.     *)
(***************************************************************************)
\* the entry of client c in the quality table after the step
EntryOf(c) == clientMetrics'[MetricIndex(clientMetrics', c)]

\* C33: when the evaluation of client c's update reports the loss `loss`,
\* the quality recorded for c is computed from previousLoss - loss when a
\* previous loss of c is recorded and from loss when none is, and afterwards
\* the previous loss of c is `loss`.
C33_QualityFromDifference ==
    [][\A c \in Ids, loss \in LossVals, nd \in NumDataVals :
         SelEvaluate(c, loss, nd)
             => /\ EntryOf(c).quality =
                       IF c \in DOMAIN previousRoundMetrics
                       THEN computeModelQuality(previousRoundMetrics[c] - loss, nd)
                       ELSE computeModelQuality(loss, nd)
                /\ previousRoundMetrics'[c] = loss]_vars

(***************************************************************************)
(* The claim about the archived rounds, on Spec.                           *)
(***************************************************************************)
\* C34: a round in the archive is completed and no step changes it: its
\* submissions, its aggregated model and its status stay, and it keeps its
\* place in the archive.
C34_ArchiveImmutable ==
    [][\A n \in 1..Len(rounds) :
          /\ Len(rounds') >= n
          /\ rounds'[n] = rounds[n]
          /\ rounds[n].status = "completed"]_vars

\* round 1 is in the archive and an update has been stored in round 2
C34_Witness ==
    /\ Len(rounds) = 1
    /\ currentRound # NullObj
    /\ currentRound.roundId = 2
    /\ DOMAIN currentRound.clients # {}


(***************************************************************************)
(* The claims about the browser client, on ClientSpec.                     *)
(***************************************************************************)
\* the catch block of the polling callback runs
PollingCatch ==
    \/ \E i \in DOMAIN callbacks :
           PollingCallbackResumes(i) /\ callbacks[i].response = ErrorResponse
    \/ \E i \in DOMAIN callbacks : participateInTraining(i, FALSE)
    \/ \E i \in DOMAIN callbacks, evaluated \in BOOLEAN :
           /\ SubmitWeightsAnswered(i, evaluated)
           /\ submitWeightsCode(served, registration, callbacks[i].clientId,
                                evaluated) # 200

\* C35: after an error during status polling or during the training
\* participation of a registered client, isTraining is cleared and a polling
\* timer of the client is active.
C35_PollingResumesAfterError ==
    [][PollingCatch /\ isRegistered'
           => ~isTraining' /\ intervals' # {}]_vars

(***************************************************************************)
(* The claim about the simulation driver, on SimSpec.                      *)
(***************************************************************************)
\* C36: waitForFLCompletion returns true only when the round whose roundId
\* is the total number of rounds has been aggregated and archived.
C36_TrueOnlyWhenLastRoundAggregated ==
    [][completion = None /\ completion' = Some(TRUE)
           => \E n \in 1..Len(rounds) : rounds[n].roundId = TOTAL_ROUNDS]_vars


(***************************************************************************)
(* The claims about disconnect and about the number of participations,    *)
(* on ClientSpec.                                                          *)
(***************************************************************************)
\* C38: once disconnect has returned, and until the client registers again,
\* no polling timer of the client is active, whatever was in flight when
\* disconnect was called.
C38_NoTimerAfterDisconnect ==
    ~isRegistered => intervals = {}

\* the callbacks that wait inside participateInTraining
Participations ==
    {i \in DOMAIN callbacks : callbacks[i].pc \in {"participateInTraining",
                                                   "submit-weights"}}

\* C39: at most one training participation of the client is in flight, and
\* in no round does the client send more than one submit-weights request.
C39_OneParticipation ==
    /\ Cardinality(Participations) <= 1
    /\ \A n \in 1..MaxClientRounds : submitRequests[n] <= 1


(***************************************************************************)
(* The claim about a request that is suspended across rounds, on Spec.     *)
(***************************************************************************)
\* C37: when a submit-weights request that passed validation in round n goes
\* on after its quality evaluation, round n is still the round in progress:
\* the update is stored in round n and in no later round, and the response
\* is no server error.
C37_StoredInItsRound ==
    [][\A p \in BagToSet(pendingSubmits) : \A loss \in LossesOf(p.clientId) :
         SubmitWeightsResume(p, loss)
             => /\ SubmitWeightsStatus(currentRound) # 500
                /\ currentRound # NullObj
                /\ currentRound.roundId = p.round]_vars


(***************************************************************************)
(* The claim about what POST /config leaves alone, on Spec.                *)
(***************************************************************************)
\* C40: POST /config changes nothing but serverConfig, REQUIRED_CLIENTS and
\* TOTAL_ROUNDS: the round in progress with its submissions, the round
\* number, the archive, the registry, the global model, the deadline and its
\* timer, the evaluator's metrics, the timing metrics and the suspended
\* requests are as before.
C40_ConfigChangesConfigOnly ==
    [][\A nc \in NewConfigs :
         PostConfig(nc)
             => UNCHANGED <<clients, roundVars, qualityVars, timers, timingVars,
                            pendingSubmits, idVars>>]_vars

\* round 2 is in progress with a stored update, an armed deadline and a
\* filled quality table, and requiredClients was raised above the registry
\* in this round
C40_Witness ==
    /\ currentRound # NullObj
    /\ currentRound.roundId = 2
    /\ DOMAIN currentRound.clients # {}
    /\ roundDeadline # Null
    /\ clientMetrics # <<>>
    /\ REQUIRED_CLIENTS = MaxIds
    /\ Size(clients) < MaxIds
    /\ serverConfig # DefaultConfig

=============================================================================
